---- MODULE Spec2Model ----
(***************************************************************************)
(* State-machine model of the GraphQL resolvers of the bluedit server:     *)
(* PostResolver.vote, PostResolver.createPost and PostResolver.posts over  *)
(* the post and upvote tables.                                             *)
(***************************************************************************)
EXTENDS Integers, Sequences, FiniteSets, TLC

\* ------------------------------------------------------------- bounds
NumUsers == 2
MaxPosts == 2      \* posts of the vote specifications
NumReqs == 2       \* vote requests in flight at a time
MaxVotes == 3      \* vote requests accepted in one behaviour
TiePosts == 2      \* posts of a feed whose creation times may coincide
MaxTime == 2       \* clock readings of such a feed
LongFeed == 52     \* posts of the long feed, created at distinct clock readings
MaxAccounts == 2   \* rows of the table user
MaxTokens == 2     \* reset tokens issued in one behaviour
MaxWaits == 1      \* waits of 25 hours in one behaviour
InsertPosts == 3     \* posts of a feed that grows while a client pages through it
MaxKeys == 2         \* keys of one batch of the upvote loader

\* req.session.userId of a request without a session
NoUser == 0

Users == 1..NumUsers
Callers == Users \cup {NoUser}
PostIds == 1..MaxPosts
Reqs == 1..NumReqs
\* value arguments of vote: -1, and integers that are not -1
Values == {-2, -1, 1}

VARIABLES
    post,     \* table post: id -> [title, text, points, createdAt, creatorId]
    upvote,   \* table upvote: set of rows [userId, postId, value]
    req,      \* requests in flight: slot -> position and locals of the handler
    log,      \* the last two completed resolver calls, with the tables before and after
    applied,  \* per post, the sum of the adjustments of the committed vote requests
    now,      \* the database clock
    nVotes,   \* number of vote requests accepted so far
    pager,    \* a client that pages through the feed
    user,     \* table user: id -> [id, username, email, password]
    session,  \* the session of the client: [userId, cookie]
    redis,    \* the key-value cache: set of [key, value, expiresAt]
    mail,     \* the emails sent: sequence of [to, token]
    pending,  \* statements sent to the database and not awaited: set of [id, password]
    used      \* the tokens a changePassword has succeeded with

userVars == <<user, session, redis, mail, pending, used>>
vars == <<post, upvote, req, log, applied, now, nVotes, pager, userVars>>

\* ------------------------------------------------------------- helpers
DB == [post |-> post, upvote |-> upvote]

Idle == [pc |-> "idle", userId |-> NoUser, postId |-> 0, realValue |-> 0,
         upvote |-> {}, dbOps |-> 0, raced |-> FALSE]

\* request slots are handed out lowest first
FirstIdle(r) == req[r].pc = "idle" /\ \A o \in Reqs : req[o].pc = "idle" => r <= o

RECURSIVE SumValues(_)
SumValues(rows) ==
    IF rows = {} THEN 0
    ELSE LET row == CHOOSE x \in rows : TRUE
         IN row.value + SumValues(rows \ {row})

RowsOf(rows, postId) == {row \in rows : row.postId = postId}

\* keep the last completed call, and the call before it when that was the
\* first vote of a user on a post and the last call is the same user's next
\* vote on that post
Logged(entry) ==
    IF log = <<>> THEN <<entry>>
    ELSE LET last == log[Len(log)]
         IN IF /\ last.op = "vote" /\ entry.op = "vote"
               /\ last.result = "true" /\ entry.result = "true"
               /\ last.userId = entry.userId /\ last.postId = entry.postId
               /\ last.found = {} /\ Len(log) = 1
            THEN <<last, entry>>
            ELSE <<entry>>

\* ------------------------------------------------------------- middleware
\* isAuth: throws when the session carries no user id
isAuth(userId) == userId # NoUser

\* a vote resolver that carries no middleware
VoteMiddlewareNone(userId) == TRUE

\* @UseMiddleware(isAuth) on vote
VoteMiddleware(userId) == isAuth(userId)

\* @UseMiddleware(isAuth) on createPost
CreatePostMiddleware(userId) == isAuth(userId)

\* ------------------------------------------------------------- vote
\* a vote that stores the value as it was sent
RealValueRaw(value) == value

\* const isUpvote = value !== -1; const realValue = isUpvote ? 1 : -1
RealValue(value) == IF value # -1 THEN 1 ELSE -1

\* Upvote.findOne({ where: { userId, postId } }): the row, or none
FindOne(rows, userId, postId) ==
    {row \in rows : row.userId = userId /\ row.postId = postId}

\* an update of upvote whose where clause names the post only
UpdateUpvoteOfPost(rows, realValue, postId, userId) ==
    {IF row.postId = postId
        THEN [row EXCEPT !.value = realValue]
        ELSE row : row \in rows}

\* an update of upvote that writes a second row
UpdateUpvoteAsInsert(rows, realValue, postId, userId) ==
    rows \cup {[userId |-> userId, postId |-> postId, value |-> realValue]}

\* update upvote set value = $1 where "postId" = $2 and "userId" = $3
UpdateUpvote(rows, realValue, postId, userId) ==
    {IF row.postId = postId /\ row.userId = userId
        THEN [row EXCEPT !.value = realValue]
        ELSE row : row \in rows}

\* the primary key (userId, postId) of upvote rejects a second row of a pair
UpvoteKeyTaken(rows, userId, postId) ==
    \E row \in rows : row.userId = userId /\ row.postId = postId

\* insert into upvote ("userId", "postId", value) values ($1, $2, $3)
InsertUpvote(rows, userId, postId, realValue) ==
    rows \cup {[userId |-> userId, postId |-> postId, value |-> realValue]}

\* an update of post that writes a total instead of adding to points
UpdatePostPointsAbsolute(posts, delta, postId) ==
    [id \in DOMAIN posts |->
        IF id = postId THEN [posts[id] EXCEPT !.points = delta]
        ELSE posts[id]]

\* update post set points = points + $1 where id = $2
UpdatePostPoints(posts, delta, postId) ==
    [id \in DOMAIN posts |->
        IF id = postId THEN [posts[id] EXCEPT !.points = @ + delta]
        ELSE posts[id]]

\* a changed vote that adjusts points by the new value only
FlipDeltaOnce(realValue) == realValue

\* the adjustment of points of each branch of vote
FlipDelta(realValue) == 2 * realValue
InsertDelta(realValue) == realValue

\* a vote that takes the first branch whenever a row exists
ChangingAlways(found, realValue) == found # {}

\* if (upvote && upvote.value !== realValue)
Changing(found, realValue) == found # {} /\ \E row \in found : row.value # realValue

\* else if (!upvote)
FirstVote(found) == found = {}

\* the tables as a call leaves them
After == [post |-> post', upvote |-> upvote']

\* the record of a completed call: what it was, what it did, and the tables
\* before and after it
Entry(op, userId, postId, realValue, result, found, dbOps, raced) ==
    [op |-> op, userId |-> userId, postId |-> postId, realValue |-> realValue,
     result |-> result, found |-> found, dbOps |-> dbOps, raced |-> raced,
     before |-> DB, after |-> After]

\* vote without a session: isAuth throws before the resolver body runs
VoteRejected(userId, postId, value) ==
    /\ postId \in DOMAIN post
    /\ ~VoteMiddleware(userId)
    /\ UNCHANGED <<post, upvote, req, applied, now, nVotes, pager, userVars>>
    /\ log' = Logged(Entry("vote", userId, postId, 0, "rejected", {}, 0, FALSE))

\* vote up to the end of the await of Upvote.findOne; a repeated vote with
\* the same value takes neither branch and returns true
VoteFindOne(r, userId, postId, value) ==
    /\ FirstIdle(r)
    /\ postId \in DOMAIN post
    /\ nVotes < MaxVotes
    /\ VoteMiddleware(userId)
    /\ nVotes' = nVotes + 1
    /\ UNCHANGED <<post, upvote, applied, now, pager, userVars>>
    /\ LET found == FindOne(upvote, userId, postId)
           realValue == RealValue(value)
           started == [pc |-> "txn", userId |-> userId, postId |-> postId,
                       realValue |-> realValue, upvote |-> found, dbOps |-> 1,
                       raced |-> FALSE]
       IN IF Changing(found, realValue) \/ FirstVote(found)
          THEN /\ req' = [req EXCEPT ![r] = started]
               /\ log' = log
          ELSE /\ req' = req
               /\ log' = Logged(Entry("vote", userId, postId, realValue, "true",
                                      found, 1, FALSE))

\* the row lock of the first statement of another open transaction
RowLocked(r) ==
    \E o \in Reqs \ {r} :
        /\ req[o].pc = "commit"
        /\ req[o].userId = req[r].userId
        /\ req[o].postId = req[r].postId

\* first statement of the transaction: update upvote (changed vote) or
\* insert into upvote (first vote); a duplicate key aborts the transaction
\* and vote throws
VoteStatement1(r) ==
    /\ req[r].pc = "txn"
    /\ ~RowLocked(r)
    /\ UNCHANGED <<post, upvote, applied, now, nVotes, pager, userVars>>
    /\ IF FirstVote(req[r].upvote) /\ UpvoteKeyTaken(upvote, req[r].userId, req[r].postId)
       THEN /\ req' = [req EXCEPT ![r] = Idle]
            /\ log' = Logged(Entry("vote", req[r].userId, req[r].postId,
                                   req[r].realValue, "error", req[r].upvote,
                                   req[r].dbOps + 1, req[r].raced))
       ELSE /\ req' = [req EXCEPT ![r].pc = "commit", ![r].dbOps = @ + 1]
            /\ log' = log

\* the adjustment of points of a vote that found the rows `found`
VoteDelta(found, realValue) ==
    IF FirstVote(found) THEN InsertDelta(realValue) ELSE FlipDelta(realValue)

\* the tables after both statements of the transaction of a vote that found
\* the rows `found`
VoteTransaction(found, userId, postId, realValue) ==
    IF FirstVote(found)
    THEN [upvote |-> InsertUpvote(upvote, userId, postId, realValue),
          post |-> UpdatePostPoints(post, InsertDelta(realValue), postId)]
    ELSE [upvote |-> UpdateUpvote(upvote, realValue, postId, userId),
          post |-> UpdatePostPoints(post, FlipDelta(realValue), postId)]

\* second statement (update post) and commit; vote returns true
VoteCommit(r) ==
    /\ req[r].pc = "commit"
    /\ LET after == VoteTransaction(req[r].upvote, req[r].userId, req[r].postId,
                                    req[r].realValue)
       IN /\ post' = after.post
          /\ upvote' = after.upvote
    /\ applied' = [applied EXCEPT ![req[r].postId] =
                                     @ + VoteDelta(req[r].upvote, req[r].realValue)]
    /\ req' = [o \in Reqs |->
                 IF o = r THEN Idle
                 ELSE IF req[o].pc # "idle" /\ req[o].postId = req[r].postId
                      THEN [req[o] EXCEPT !.raced = TRUE]
                      ELSE req[o]]
    /\ UNCHANGED <<now, nVotes, pager, userVars>>
    /\ log' = Logged(Entry("vote", req[r].userId, req[r].postId, req[r].realValue,
                           "true", req[r].upvote, req[r].dbOps + 1, req[r].raced))

\* the tables as the open transaction of a vote sees them once its first
\* statement has run
Written(found, userId, postId, realValue) ==
    IF FirstVote(found)
    THEN [post |-> post, upvote |-> InsertUpvote(upvote, userId, postId, realValue)]
    ELSE [post |-> post, upvote |-> UpdateUpvote(upvote, realValue, postId, userId)]

\* a connection that runs the statements outside a transaction
NotRolledBack(tables, written) == written

\* getConnection().transaction(...): when a statement throws, what the
\* transaction has written is rolled back
RolledBack(tables, written) == tables

\* the second statement (update post) fails: the transaction is rolled back
\* and vote throws
VoteStatement2Fails(r) ==
    /\ req[r].pc = "commit"
    /\ LET left == RolledBack(DB, Written(req[r].upvote, req[r].userId,
                                          req[r].postId, req[r].realValue))
       IN /\ post' = left.post
          /\ upvote' = left.upvote
    /\ req' = [req EXCEPT ![r] = Idle]
    /\ UNCHANGED <<applied, now, nVotes, pager, userVars>>
    /\ log' = Logged(Entry("vote", req[r].userId, req[r].postId, req[r].realValue,
                           "error", req[r].upvote, req[r].dbOps + 1, req[r].raced))

\* vote as one call that runs to its end with no other request in between
Vote(userId, postId, value) ==
    /\ postId \in DOMAIN post
    /\ nVotes < MaxVotes
    /\ VoteMiddleware(userId)
    /\ nVotes' = nVotes + 1
    /\ UNCHANGED <<req, now, pager, userVars>>
    /\ LET found == FindOne(upvote, userId, postId)
           realValue == RealValue(value)
           after == VoteTransaction(found, userId, postId, realValue)
       IN IF Changing(found, realValue) \/ FirstVote(found)
          THEN /\ post' = after.post
               /\ upvote' = after.upvote
               /\ applied' = [applied EXCEPT ![postId] = @ + VoteDelta(found, realValue)]
               /\ log' = Logged(Entry("vote", userId, postId, realValue, "true",
                                      found, 3, FALSE))
          ELSE /\ UNCHANGED <<post, upvote, applied>>
               /\ log' = Logged(Entry("vote", userId, postId, realValue, "true",
                                      found, 1, FALSE))

\* an upvote table whose postId references nothing
NoForeignKey(posts, postId) == FALSE

\* the foreign key of upvote."postId" to post rejects a row of a post that
\* does not exist
PostKeyMissing(posts, postId) == postId \notin DOMAIN posts

\* vote, as one call, on a post id that no post has
VoteMissingPost(userId, postId, value) ==
    /\ postId \notin DOMAIN post
    /\ nVotes < MaxVotes
    /\ VoteMiddleware(userId)
    /\ nVotes' = nVotes + 1
    /\ UNCHANGED <<req, applied, now, pager, userVars>>
    /\ LET found == FindOne(upvote, userId, postId)
           realValue == RealValue(value)
           after == VoteTransaction(found, userId, postId, realValue)
       IN IF Changing(found, realValue)
          THEN /\ post' = after.post
               /\ upvote' = after.upvote
               /\ log' = Logged(Entry("vote", userId, postId, realValue, "true",
                                      found, 3, FALSE))
          ELSE IF FirstVote(found)
          THEN IF PostKeyMissing(post, postId)
               THEN LET left == RolledBack(DB, DB)
                    IN /\ post' = left.post
                       /\ upvote' = left.upvote
                       /\ log' = Logged(Entry("vote", userId, postId, realValue,
                                              "error", found, 2, FALSE))
               ELSE /\ post' = after.post
                    /\ upvote' = after.upvote
                    /\ log' = Logged(Entry("vote", userId, postId, realValue,
                                           "true", found, 3, FALSE))
          ELSE /\ UNCHANGED <<post, upvote>>
               /\ log' = Logged(Entry("vote", userId, postId, realValue, "true",
                                      found, 1, FALSE))

\* ------------------------------------------------------------- createPost
\* the input of createPost: title and text
PostInput == [title |-> "first", text |-> "text"]

\* Post.create({ ...input, creatorId: req.session.userId }).save()
InsertPost(posts, creatorId, createdAt) ==
    LET id == Cardinality(DOMAIN posts) + 1
    IN [p \in DOMAIN posts \cup {id} |->
          IF p = id THEN [title |-> PostInput.title, text |-> PostInput.text,
                          points |-> 0, createdAt |-> createdAt,
                          creatorId |-> creatorId]
          ELSE posts[p]]

\* createPost without a session: isAuth throws before the resolver body runs
CreatePostRejected(userId) ==
    /\ ~CreatePostMiddleware(userId)
    /\ UNCHANGED <<post, upvote, req, applied, now, nVotes, pager, userVars>>
    /\ log' = Logged(Entry("createPost", userId, 0, 0, "rejected", {}, 0, FALSE))

CreatePost(userId) ==
    /\ CreatePostMiddleware(userId)
    /\ post' = InsertPost(post, userId, now)
    /\ applied' = [p \in DOMAIN post' |-> IF p \in DOMAIN post THEN applied[p] ELSE 0]
    /\ UNCHANGED <<upvote, req, now, nVotes, pager, userVars>>
    /\ log' = Logged(Entry("createPost", userId, Cardinality(DOMAIN post'), 0,
                           "created", {}, 1, FALSE))

\* ------------------------------------------------------------- updatePost
\* the title argument left out of the call
Undefined == "undefined"
Titles == {"first", "edited"}

\* @Mutation(() => Post) on updatePost: the return type carries no
\* { nullable: true }
UpdatePostNullable == FALSE

\* the value of a field of the response: null in a field whose type is not
\* nullable is an error
Completed(nullable, value) ==
    IF value = "null" /\ ~nullable THEN "error" ELSE value

\* Post.findOne(id): the row, or none
FindOnePost(posts, id) == {p \in DOMAIN posts : p = id}

\* Post.update({ id }, { title })
UpdateTitle(posts, id, title) ==
    [p \in DOMAIN posts |->
        IF p = id THEN [posts[p] EXCEPT !.title = title] ELSE posts[p]]

\* mutation updatePost(id, title); it carries no middleware
UpdatePost(userId, id, title) ==
    /\ UNCHANGED <<upvote, req, applied, now, nVotes, pager, userVars>>
    /\ LET found == FindOnePost(post, id)
       IN IF found = {}
          THEN /\ post' = post
               /\ log' = Logged([op |-> "updatePost", userId |-> userId,
                                 postId |-> id, title |-> title,
                                 returned |-> "null",
                                 result |-> Completed(UpdatePostNullable, "null"),
                                 before |-> DB, after |-> After])
          ELSE /\ post' = IF title # Undefined THEN UpdateTitle(post, id, title)
                          ELSE post
               /\ log' = Logged([op |-> "updatePost", userId |-> userId,
                                 postId |-> id, title |-> title,
                                 returned |-> "post",
                                 result |-> Completed(UpdatePostNullable, "post"),
                                 before |-> DB, after |-> After])

\* ------------------------------------------------------------- posts
\* Math.min(50, limit)
MaxLimit == 50
Min(a, b) == IF a < b THEN a ELSE b
\* a limit that is not clamped
RealLimitUnclamped(limit) == limit
\* const realLimit = Math.min(50, limit)
RealLimit(limit) == Min(MaxLimit, limit)
\* const realLimitPlusOne = realLimit + 1
RealLimitPlusOne(limit) == RealLimit(limit) + 1

\* a cursor is a string of decimal digits; the empty string and null are
\* both falsy and are both written <<>>
NoCursor == <<>>
Truthy(cursor) == cursor # NoCursor

\* parseInt(cursor) of a string of decimal digits
RECURSIVE ParseInt(_)
ParseInt(cursor) ==
    IF cursor = <<>> THEN 0
    ELSE 10 * ParseInt(SubSeq(cursor, 1, Len(cursor) - 1)) + cursor[Len(cursor)]

\* the decimal string of the createdAt of a row, which the client sends back
RECURSIVE CursorOf(_)
CursorOf(createdAt) ==
    IF createdAt < 10 THEN <<createdAt>>
    ELSE CursorOf(createdAt \div 10) \o <<createdAt % 10>>

\* const replacements = [realLimitPlusOne]; push(userId); push(new Date(...))
Replacements(userId, limit, cursor) ==
    <<RealLimitPlusOne(limit)>>
        \o (IF userId # NoUser THEN <<userId>> ELSE <<>>)
        \o (IF Truthy(cursor) THEN <<ParseInt(cursor)>> ELSE <<>>)

\* let cursorIndex = 3; if (cursor) cursorIndex = replacements.length
CursorIndex(userId, limit, cursor) ==
    IF Truthy(cursor) THEN Len(Replacements(userId, limit, cursor)) ELSE 3

\* where p."createdAt" < $cursorIndex, when there is a cursor
RestrictedNotStrict(posts, userId, limit, cursor) ==
    IF Truthy(cursor)
    THEN {id \in DOMAIN posts :
            posts[id].createdAt
                <= Replacements(userId, limit, cursor)[CursorIndex(userId, limit, cursor)]}
    ELSE DOMAIN posts

Restricted(posts, userId, limit, cursor) ==
    IF Truthy(cursor)
    THEN {id \in DOMAIN posts :
            posts[id].createdAt
                < Replacements(userId, limit, cursor)[CursorIndex(userId, limit, cursor)]}
    ELSE DOMAIN posts

\* order by p."createdAt" DESC limit n: the first n rows of every order the
\* database may return (rows of one createdAt come in any order)
RECURSIVE Newest(_, _)
Newest(posts, ids) ==
    LET id == CHOOSE x \in ids : TRUE
        rest == ids \ {id}
    IN IF rest = {} THEN posts[id].createdAt
       ELSE LET t == Newest(posts, rest)
            IN IF posts[id].createdAt > t THEN posts[id].createdAt ELSE t

RECURSIVE TopRows(_, _, _)
TopRows(posts, ids, n) ==
    IF n = 0 \/ ids = {} THEN {<<>>}
    ELSE LET t == Newest(posts, ids)
         IN UNION {{<<id>> \o rest : rest \in TopRows(posts, ids \ {id}, n - 1)} :
                     id \in {x \in ids : posts[x].createdAt = t}}

\* (select value from upvote where "userId" = $2 and "postId" = p.id), or
\* null as "voteStatus" without a session
NullStatus == 0
\* a subquery that does not name the caller
VoteStatusOfAnyone(rows, userId, limit, cursor, postId) ==
    LET any == {row \in rows : row.postId = postId}
    IN IF any = {} THEN NullStatus ELSE (CHOOSE row \in any : TRUE).value
VoteStatus(rows, userId, limit, cursor, postId) ==
    IF userId # NoUser
    THEN LET mine == {row \in rows :
                        /\ row.userId = Replacements(userId, limit, cursor)[2]
                        /\ row.postId = postId}
         IN IF mine = {} THEN NullStatus ELSE (CHOOSE row \in mine : TRUE).value
    ELSE NullStatus

\* one row of the result of the query
Row(userId, limit, cursor, id) ==
    [id |-> id, createdAt |-> post[id].createdAt, points |-> post[id].points,
     creatorId |-> post[id].creatorId,
     voteStatus |-> VoteStatus(upvote, userId, limit, cursor, id)]

\* Array.prototype.slice(0, end)
Slice(rows, end) ==
    LET stop == IF end < 0 THEN (IF Len(rows) + end < 0 THEN 0 ELSE Len(rows) + end)
                ELSE Min(end, Len(rows))
    IN SubSeq(rows, 1, stop)

\* posts.slice(0, realLimit)
ReturnedPosts(rows, limit) == Slice(rows, RealLimit(limit))

\* hasMore: posts.length === realLimitPlusOne
HasMore(rows, limit) == Len(rows) = RealLimitPlusOne(limit)

\* the database rejects a negative LIMIT
QueryFails(limit) == RealLimitPlusOne(limit) < 0

\* the responses posts(limit, cursor) may give to a caller: one per order of
\* the rows
Responses(userId, limit, cursor) ==
    IF QueryFails(limit)
    THEN {[op |-> "posts", userId |-> userId, postId |-> 0, result |-> "error",
           limit |-> limit, cursor |-> cursor, rows |-> <<>>, posts |-> <<>>,
           hasMore |-> FALSE, before |-> DB]}
    ELSE {LET rows == [i \in 1..Len(ids) |-> Row(userId, limit, cursor, ids[i])]
          IN [op |-> "posts", userId |-> userId, postId |-> 0, result |-> "ok",
              limit |-> limit, cursor |-> cursor, rows |-> rows,
              posts |-> ReturnedPosts(rows, limit),
              hasMore |-> HasMore(rows, limit), before |-> DB] :
          ids \in TopRows(post, Restricted(post, userId, limit, cursor),
                          RealLimitPlusOne(limit))}

\* the record of a query and its response
Observed(response) == [after |-> After] @@ response

\* query posts
Posts(userId, limit, cursor) ==
    /\ UNCHANGED <<post, upvote, req, applied, now, nVotes, pager, userVars>>
    /\ \E response \in Responses(userId, limit, cursor) :
          log' = Logged(Observed(response))

\* ------------------------------------------------------------- paging client
NoPager == [state |-> "idle", limit |-> 0, cursor |-> NoCursor, feed |-> {},
            got |-> <<>>]

\* the ids of the posts of a response, in order
IdsOf(response) == [i \in 1..Len(response.posts) |-> response.posts[i].id]

\* the pager after a page: it stops when hasMore is false, and else asks
\* for the rows older than the last row it received
Paged(limit, feed, got, response) ==
    [state |-> IF response.hasMore THEN "paging" ELSE "done",
     limit |-> limit,
     cursor |-> IF response.posts = <<>> THEN NoCursor
                ELSE CursorOf(response.posts[Len(response.posts)].createdAt),
     feed |-> feed,
     got |-> got \o IdsOf(response)]

\* first page: posts(limit, null)
FirstPage(userId, limit) ==
    /\ pager.state = "idle"
    /\ UNCHANGED <<post, upvote, req, applied, now, nVotes, userVars>>
    /\ \E response \in Responses(userId, limit, NoCursor) :
          /\ response.result = "ok"
          /\ log' = Logged(Observed(response))
          /\ pager' = Paged(limit, DOMAIN post, <<>>, response)

\* next page: posts(limit, createdAt of the last row received)
NextPage(userId) ==
    /\ pager.state = "paging"
    /\ UNCHANGED <<post, upvote, req, applied, now, nVotes, userVars>>
    /\ \E response \in Responses(userId, pager.limit, pager.cursor) :
          /\ response.result = "ok"
          /\ log' = Logged(Observed(response))
          /\ pager' = Paged(pager.limit, pager.feed, pager.got, response)

\* the database clock advances
Tick ==
    /\ now' = now + 1
    /\ UNCHANGED <<post, upvote, req, log, applied, nVotes, pager, userVars>>

\* ------------------------------------------------------------- strings
\* a string is the sequence of its characters
Includes(string, part) ==
    \E i \in 1..(Len(string) - Len(part) + 1) :
        SubSeq(string, i, i + Len(part) - 1) = part

At == <<"@">>
Bob == <<"b", "o", "b">>
Al == <<"a", "l">>
\* a username that spells the name of a column
Emailer == <<"e", "m", "a", "i", "l", "e", "r">>
BobMail == <<"b", "@", "x">>
EveMail == <<"e", "@", "x">>
NoAtMail == <<"b", "x">>
Secret == <<"s", "e", "c", "r", "e", "t">>
Hunter == <<"h", "u", "n", "t", "e", "r">>
Abc == <<"a", "b", "c">>

Usernames == {Bob, Emailer, Al}
Emails == {BobMail, EveMail, NoAtMail}
Passwords == {Secret, Hunter, Abc}

\* ------------------------------------------------------------- user store
\* the tables and stores the user resolvers read and write
UserDB == [user |-> user, session |-> session, redis |-> redis, mail |-> mail,
           pending |-> pending, used |-> used]

\* the same as a call leaves them
UserAfter == [user |-> user', session |-> session', redis |-> redis',
              mail |-> mail', pending |-> pending', used |-> used']

\* a session without a user
NoSession == [userId |-> NoUser, cookie |-> FALSE]

\* req.session.userId = id: the session is saved and its cookie is set
SetSession(id) == [userId |-> id, cookie |-> TRUE]

\* argon2.hash: a salted one-way hash
Salts == {1}
Hash(password, salt) == [alg |-> "argon2", salt |-> salt, of |-> password]

\* argon2.verify(hash, password)
Verify(hash, password) == hash = Hash(password, hash.salt)

\* a response with one field error
FieldError(field, message) == [field |-> field, message |-> message]
NoErrors == <<>>

\* the record of a completed call of a user resolver
UserEntry(op, args, result, errors, steps) ==
    [op |-> op, args |-> args, result |-> result, errors |-> errors,
     steps |-> steps, before |-> UserDB, after |-> UserAfter, at |-> now]

\* ------------------------------------------------------------- register
\* validateRegister(options): email shape and minimum lengths
MinUsernameLength == 3
MinPasswordLength == 3
ValidateRegister(options) ==
    IF ~Includes(options.email, At)
    THEN <<FieldError("email", "invalid email")>>
    ELSE IF Len(options.username) < MinUsernameLength
    THEN <<FieldError("username", "length must be greater than 2")>>
    ELSE IF Len(options.password) < MinPasswordLength
    THEN <<FieldError("password", "length must be greater than 2")>>
    ELSE NoErrors

\* the unique constraints of the table user that an insert violates
Violated(users, username, email) ==
    {column \in {"username", "email"} :
        \E id \in DOMAIN users :
            \/ column = "username" /\ users[id].username = username
            \/ column = "email" /\ users[id].email = email}

\* the name of a column as a string
ColumnName(column) ==
    IF column = "email" THEN <<"e", "m", "a", "i", "l">>
    ELSE <<"u", "s", "e", "r", "n", "a", "m", "e">>

\* err.detail of a unique violation: Key (column)=(value) already exists.
Detail(column, value) ==
    <<"K", "e", "y", " ", "(">> \o ColumnName(column) \o <<")", "=", "(">>
        \o value
        \o <<")", " ", "a", "l", "r", "e", "a", "d", "y", " ",
             "e", "x", "i", "s", "t", "s", ".">>

\* an insert that writes the row twice
InsertUserTwice(users, username, hashedPassword, email) ==
    LET row(id) == [id |-> id, username |-> username, email |-> email,
                    password |-> hashedPassword]
    IN users \o <<row(Len(users) + 1), row(Len(users) + 2)>>

\* insert into user ... returning *
InsertUser(users, username, hashedPassword, email) ==
    LET id == Len(users) + 1
    IN Append(users, [id |-> id, username |-> username, email |-> email,
                      password |-> hashedPassword])

\* catch (err): the response for a violation with the given detail
CollisionErrors(detail) ==
    IF Includes(detail, ColumnName("email"))
    THEN <<FieldError("email", "email already exists")>>
    ELSE <<FieldError("username", "username already taken")>>

\* UserResolver.register
Register(options) ==
    /\ UNCHANGED <<post, upvote, req, applied, now, nVotes, pager>>
    /\ UNCHANGED <<redis, mail, pending, used>>
    /\ LET errors == ValidateRegister(options)
       IN IF errors # NoErrors
          THEN /\ UNCHANGED <<user, session>>
               /\ log' = Logged(UserEntry("register", options, "errors", errors, 0))
          ELSE \E salt \in Salts :
                 LET hashedPassword == Hash(options.password, salt)
                     violated == Violated(user, options.username, options.email)
                 IN IF violated = {}
                    THEN /\ user' = InsertUser(user, options.username,
                                               hashedPassword, options.email)
                         /\ session' = SetSession(user'[Len(user')].id)
                         /\ log' = Logged(UserEntry("register", options, "user",
                                                    NoErrors, 1))
                    ELSE \E column \in violated :
                           /\ UNCHANGED <<user, session>>
                           /\ log' = Logged(UserEntry("register", options, "errors",
                                   CollisionErrors(Detail(column,
                                       IF column = "email" THEN options.email
                                       ELSE options.username)), 1))

\* ------------------------------------------------------------- login
\* a lookup by username whatever the identifier
FindByUsername(users, usernameOrEmail) ==
    {id \in DOMAIN users : users[id].username = usernameOrEmail}

\* User.findOne by email when the identifier includes '@', else by username
FindByUsernameOrEmail(users, usernameOrEmail) ==
    IF Includes(usernameOrEmail, At)
    THEN {id \in DOMAIN users : users[id].email = usernameOrEmail}
    ELSE {id \in DOMAIN users : users[id].username = usernameOrEmail}

\* what login answers, and the user id it stores in the session
LoginResponse(users, usernameOrEmail, password) ==
    LET found == FindByUsernameOrEmail(users, usernameOrEmail)
    IN IF found = {}
       THEN [errors |-> <<FieldError("usernameOrEmail",
                                     "user doesn't exist in database")>>,
             userId |-> NoUser]
       ELSE LET u == users[CHOOSE id \in found : TRUE]
            IN IF ~Verify(u.password, password)
               THEN [errors |-> <<FieldError("password", "incorrect password")>>,
                     userId |-> NoUser]
               ELSE [errors |-> NoErrors, userId |-> u.id]

\* UserResolver.login
Login(usernameOrEmail, password) ==
    /\ UNCHANGED <<post, upvote, req, applied, now, nVotes, pager>>
    /\ UNCHANGED <<user, redis, mail, pending, used>>
    /\ LET response == LoginResponse(user, usernameOrEmail, password)
       IN /\ session' = IF response.errors = NoErrors
                        THEN SetSession(response.userId)
                        ELSE session
          /\ log' = Logged(UserEntry("login",
                         [usernameOrEmail |-> usernameOrEmail, password |-> password],
                         IF response.errors = NoErrors THEN "user" ELSE "errors",
                         response.errors, 1))

\* ------------------------------------------------------------- logout
\* req.session.destroy(callback): the store may report an error, and then
\* the session may still be in the store
Destroyed(err) ==
    {[userId |-> IF kept THEN session.userId ELSE NoUser, cookie |-> session.cookie] :
        kept \in (IF err THEN BOOLEAN ELSE {FALSE})}

\* a logout that leaves the cookie
KeepCookie(s) == s

\* res.clearCookie(COOKIE_NAME)
ClearCookie(s) == [s EXCEPT !.cookie = FALSE]

\* UserResolver.logout
Logout ==
    /\ UNCHANGED <<post, upvote, req, applied, now, nVotes, pager>>
    /\ UNCHANGED <<user, redis, mail, pending, used>>
    /\ \E err \in BOOLEAN :
          \E destroyed \in Destroyed(err) :
              /\ session' = ClearCookie(destroyed)
              /\ log' = Logged(UserEntry("logout", [err |-> err],
                                         IF err THEN "false" ELSE "true", NoErrors, 0))

\* ------------------------------------------------------------- key-value cache
\* FORGOT_PASSWORD_PREFIX + token
ForgotPasswordPrefix == "forget-password:"
Key(token) == <<ForgotPasswordPrefix, token>>

\* v4(): a token not issued before, the k-th one
Token(k) == CursorOf(k)

\* the string a number is stored as
StoredAs(n) == CursorOf(n)

\* a set that drops every other key
RedisSetOnly(store, key, value, seconds) ==
    {[key |-> key, value |-> value, expiresAt |-> now + seconds]}

\* redis.set(key, value, 'ex', seconds): the key expires after that many seconds
RedisSet(store, key, value, seconds) ==
    {entry \in store : entry.key # key}
        \cup {[key |-> key, value |-> value, expiresAt |-> now + seconds]}

\* a get that returns the value of a key that has expired
RedisGetExpired(store, key) ==
    LET kept == {entry \in store : entry.key = key}
    IN IF kept = {} THEN NoCursor ELSE (CHOOSE entry \in kept : TRUE).value

\* redis.get(key): the value, or null when the key is absent or has expired
RedisGet(store, key) ==
    LET live == {entry \in store : entry.key = key /\ now < entry.expiresAt}
    IN IF live = {} THEN NoCursor ELSE (CHOOSE entry \in live : TRUE).value

\* a del that deletes nothing
RedisDelNothing(store, key) == store

\* redis.del(key)
RedisDel(store, key) == {entry \in store : entry.key # key}

\* ------------------------------------------------------------- forgotPassword
\* the 'ex' argument of redis.set
TokenSeconds == 1000 * 60 * 60 * 24

\* UserResolver.forgotPassword
ForgotPassword(email) ==
    /\ UNCHANGED <<post, upvote, req, applied, now, nVotes, pager>>
    /\ UNCHANGED <<user, session, pending, used>>
    /\ LET found == {id \in DOMAIN user : user[id].email = email}
       IN IF found = {}
          THEN /\ UNCHANGED <<redis, mail>>
               /\ log' = Logged(UserEntry("forgotPassword", [email |-> email],
                                          "true", NoErrors, 1))
          ELSE LET u == user[CHOOSE id \in found : TRUE]
                   token == Token(Len(mail) + 1)
               IN /\ redis' = RedisSet(redis, Key(token), StoredAs(u.id), TokenSeconds)
                  /\ mail' = Append(mail, [to |-> email, token |-> token, at |-> now])
                  /\ log' = Logged(UserEntry("forgotPassword", [email |-> email],
                                             "true", NoErrors, 3))

\* ------------------------------------------------------------- changePassword
\* if (newPassword.length <= 5)
TooShort(newPassword) == Len(newPassword) <= 5

\* UserResolver.changePassword up to its return; User.update is sent to the
\* database and not awaited
ChangePassword(token, newPassword) ==
    /\ UNCHANGED <<post, upvote, req, applied, now, nVotes, pager>>
    /\ UNCHANGED <<user, mail>>
    /\ LET args == [token |-> token, newPassword |-> newPassword]
           key == Key(token)
           userId == RedisGet(redis, key)
           userIdNum == ParseInt(userId)
       IN IF TooShort(newPassword)
          THEN /\ UNCHANGED <<session, redis, pending, used>>
               /\ log' = Logged(UserEntry("changePassword", args, "errors",
                       <<FieldError("newPassword", "length must be greater than 5")>>, 0))
          ELSE IF ~Truthy(userId)
          THEN /\ UNCHANGED <<session, redis, pending, used>>
               /\ log' = Logged(UserEntry("changePassword", args, "errors",
                       <<FieldError("token", "token expired")>>, 1))
          ELSE IF userIdNum \notin DOMAIN user
          THEN /\ UNCHANGED <<session, redis, pending, used>>
               /\ log' = Logged(UserEntry("changePassword", args, "errors",
                       <<FieldError("token", "user no longer exists")>>, 2))
          ELSE \E salt \in Salts :
                 /\ pending' = pending \cup
                        {[id |-> userIdNum, password |-> Hash(newPassword, salt)]}
                 /\ redis' = RedisDel(redis, key)
                 /\ session' = SetSession(user[userIdNum].id)
                 /\ used' = used \cup {token}
                 /\ log' = Logged(UserEntry("changePassword", args, "user",
                                            NoErrors, 4))

\* changePassword up to the end of the await of redis.get(key); a short
\* password or a key that is not there ends the call
ChangePasswordGet(r, token, newPassword) ==
    /\ FirstIdle(r)
    /\ UNCHANGED <<post, upvote, applied, now, nVotes, pager>>
    /\ UNCHANGED <<user, session, redis, mail, pending, used>>
    /\ LET args == [token |-> token, newPassword |-> newPassword]
           userId == RedisGet(redis, Key(token))
       IN IF TooShort(newPassword)
          THEN /\ req' = req
               /\ log' = Logged(UserEntry("changePassword", args, "errors",
                       <<FieldError("newPassword", "length must be greater than 5")>>, 0))
          ELSE IF ~Truthy(userId)
          THEN /\ req' = req
               /\ log' = Logged(UserEntry("changePassword", args, "errors",
                       <<FieldError("token", "token expired")>>, 1))
          ELSE /\ req' = [req EXCEPT ![r] = [pc |-> "got", token |-> token,
                                             newPassword |-> newPassword,
                                             userId |-> userId]]
               /\ log' = log

\* changePassword from User.findOne to its return: User.update is sent and
\* not awaited, the key is deleted, the session is set
ChangePasswordDel(r) ==
    /\ req[r].pc = "got"
    /\ UNCHANGED <<post, upvote, applied, now, nVotes, pager>>
    /\ UNCHANGED <<user, mail>>
    /\ req' = [req EXCEPT ![r] = Idle]
    /\ LET args == [token |-> req[r].token, newPassword |-> req[r].newPassword]
           userIdNum == ParseInt(req[r].userId)
       IN IF userIdNum \notin DOMAIN user
          THEN /\ UNCHANGED <<session, redis, pending, used>>
               /\ log' = Logged(UserEntry("changePassword", args, "errors",
                       <<FieldError("token", "user no longer exists")>>, 2))
          ELSE \E salt \in Salts :
                 /\ pending' = pending \cup
                        {[id |-> userIdNum,
                          password |-> Hash(req[r].newPassword, salt)]}
                 /\ redis' = RedisDel(redis, Key(req[r].token))
                 /\ session' = SetSession(user[userIdNum].id)
                 /\ used' = used \cup {req[r].token}
                 /\ log' = Logged(UserEntry("changePassword", args, "user",
                                            NoErrors, 4))

\* the statement of User.update({ id }, { password }) reaches the database
UserUpdate ==
    /\ UNCHANGED <<post, upvote, req, applied, now, nVotes, pager>>
    /\ UNCHANGED <<session, redis, mail, used, log>>
    /\ \E statement \in pending :
          /\ user' = [user EXCEPT ![statement.id].password = statement.password]
          /\ pending' = pending \ {statement}

\* time passes: 25 hours, or as long as a key of the cache lives
Day == 24 * 60 * 60
LongDay == 25 * 60 * 60
Elapse(seconds) ==
    /\ now' = now + seconds
    /\ UNCHANGED <<post, upvote, req, log, applied, nVotes, pager, userVars>>

\* ------------------------------------------------------------- specifications
Init ==
    /\ post = <<>>
    /\ upvote = {}
    /\ req = [r \in Reqs |-> Idle]
    /\ log = <<>>
    /\ applied = <<>>
    /\ now = 1
    /\ nVotes = 0
    /\ pager = NoPager
    /\ user = <<>>
    /\ session = NoSession
    /\ redis = {}
    /\ mail = <<>>
    /\ pending = {}
    /\ used = {}

Quiet == \A r \in Reqs : req[r].pc = "idle"
\* a query is followed up once after each other call: it changes no table
Unqueried == IF log = <<>> THEN TRUE ELSE log[Len(log)].op # "posts"
NumPosts == Cardinality(DOMAIN post)

\* the author of the posts the vote specifications follow
Authors == {1}

\* resolvers called one after the other, each running to its end; the clock
\* advances between two posts
NextSeq ==
    \/ \E userId \in Authors :
          NumPosts < MaxPosts /\ now = NumPosts + 1 /\ CreatePost(userId)
    \/ now = NumPosts /\ Tick
    \/ \E userId \in Callers : CreatePostRejected(userId)
    \/ \E userId \in Callers, postId \in PostIds, value \in Values :
          VoteRejected(userId, postId, value)
    \/ \E userId \in Callers, postId \in PostIds, value \in Values :
          Vote(userId, postId, value)

Spec == Init /\ [][NextSeq]_vars

\* votes called one after the other, and the feed queried in between
NextStatus ==
    \/ \E userId \in Authors :
          NumPosts < MaxPosts /\ now = NumPosts + 1 /\ CreatePost(userId)
    \/ now = NumPosts /\ Tick
    \/ \E userId \in Users, postId \in PostIds, value \in Values :
          Vote(userId, postId, value)
    \/ \E userId \in Callers, limit \in {MaxLimit},
          cursor \in {NoCursor, CursorOf(MaxPosts)} :
          Unqueried /\ Posts(userId, limit, cursor)

SpecStatus == Init /\ [][NextStatus]_vars

\* concurrent vote requests on one post, any callers
NextConc ==
    \/ \E userId \in Authors : post = <<>> /\ CreatePost(userId)
    \/ \E r \in Reqs, userId \in Callers, postId \in PostIds, value \in Values :
          VoteFindOne(r, userId, postId, value)
    \/ \E r \in Reqs : VoteStatement1(r)
    \/ \E r \in Reqs : VoteCommit(r)

SpecConc == Init /\ [][NextConc]_vars

\* concurrent vote requests on one post, each user with one request in
\* flight at a time
OneRequestPerUser(userId) == \A r \in Reqs : req[r].pc = "idle" \/ req[r].userId # userId

NextDistinct ==
    \/ \E userId \in Authors : post = <<>> /\ CreatePost(userId)
    \/ \E r \in Reqs, userId \in Callers, postId \in PostIds, value \in Values :
          OneRequestPerUser(userId) /\ VoteFindOne(r, userId, postId, value)
    \/ \E r \in Reqs : VoteStatement1(r)
    \/ \E r \in Reqs : VoteCommit(r)

SpecDistinct == Init /\ [][NextDistinct]_vars

\* the feed: short feeds whose posts may share a creation time, and one long
\* feed of posts of user 1, post p created at clock reading p
Limits == {-2, -1, 0, 1, 2, MaxLimit, MaxLimit + 1}
PageLimits == {1, 2}
Cursors == {NoCursor} \cup {CursorOf(t) : t \in 1..(MaxTime + 1)}
LongFeedSoFar == \A id \in DOMAIN post : post[id].createdAt = id /\ post[id].creatorId = 1
ShortFeed == NumPosts <= TiePosts
IsLongFeed == NumPosts > MaxLimit

NextFeed ==
    \/ \E userId \in Authors : NumPosts < TiePosts /\ now <= MaxTime /\ CreatePost(userId)
    \/ NumPosts < LongFeed /\ LongFeedSoFar /\ now = NumPosts + 1 /\ CreatePost(1)
    \/ now < MaxTime /\ Tick
    \/ NumPosts < LongFeed /\ LongFeedSoFar /\ now = NumPosts /\ Tick
    \/ \E userId \in {NoUser, 1}, limit \in Limits, cursor \in Cursors :
          ShortFeed /\ Unqueried /\ Posts(userId, limit, cursor)
    \/ \E limit \in {MaxLimit, MaxLimit + 1} :
          IsLongFeed /\ Unqueried /\ Posts(NoUser, limit, NoCursor)
    \/ \E limit \in PageLimits : ShortFeed /\ FirstPage(NoUser, limit)
    \/ IsLongFeed /\ FirstPage(NoUser, MaxLimit)
    \/ NextPage(NoUser)

SpecFeed == Init /\ [][NextFeed]_vars

\* registration, login and logout of one client, one call after the other
RegisterInputs == [username : Usernames, email : Emails, password : Passwords]

\* the table user holds at most MaxAccounts rows
Fits(options) ==
    \/ Len(user) < MaxAccounts
    \/ ValidateRegister(options) # NoErrors
    \/ Violated(user, options.username, options.email) # {}

NextAccount ==
    \/ \E options \in RegisterInputs : Fits(options) /\ Register(options)
    \/ \E usernameOrEmail \in Usernames \cup Emails, password \in Passwords :
          Login(usernameOrEmail, password)
    \/ Logout

SpecAccount == Init /\ [][NextAccount]_vars

\* password reset: two accounts, reset requests and password changes, one
\* call after the other, with the statements not awaited landing in between
Seeds == <<[username |-> Bob, email |-> BobMail, password |-> Secret],
          [username |-> Emailer, email |-> EveMail, password |-> Secret]>>
TokenArgs == {Token(k) : k \in 1..(MaxTokens + 1)}
NewPasswords == {Hunter, Abc}
\* the clock runs through MaxWaits waits of 25 hours and one wait as long
\* as the life of a key
CanElapse(seconds) ==
    IF seconds = LongDay THEN now < MaxWaits * LongDay ELSE now < TokenSeconds

NextReset ==
    \/ Len(user) < Len(Seeds) /\ mail = <<>> /\ Register(Seeds[Len(user) + 1])
    \/ \E email \in Emails : Len(mail) < MaxTokens /\ ForgotPassword(email)
    \/ \E token \in TokenArgs, newPassword \in NewPasswords :
          ChangePassword(token, newPassword)
    \/ UserUpdate
    \/ \E seconds \in {LongDay, TokenSeconds} :
          mail # <<>> /\ CanElapse(seconds) /\ Elapse(seconds)

SpecReset == Init /\ [][NextReset]_vars

\* calls of changePassword in flight at the same time, interleaved at the
\* await of redis.get
NextRace ==
    \/ user = <<>> /\ Register(Seeds[1])
    \/ Len(mail) < MaxTokens /\ ForgotPassword(Seeds[1].email)
    \/ \E r \in Reqs, token \in TokenArgs, newPassword \in NewPasswords \cup {Secret} :
          ChangePasswordGet(r, token, newPassword)
    \/ \E r \in Reqs : ChangePasswordDel(r)
    \/ UserUpdate

SpecRace == Init /\ [][NextRace]_vars

\* a client pages through the feed while posts are created, at the clock
\* reading of the last post or later
NextInsert ==
    \/ \E userId \in Authors : NumPosts < InsertPosts /\ CreatePost(userId)
    \/ now < MaxTime /\ Tick
    \/ \E limit \in PageLimits : FirstPage(NoUser, limit)
    \/ NextPage(NoUser)

SpecInsert == Init /\ [][NextInsert]_vars

\* calls of vote on the ids of posts that exist and of posts that do not
NextMissing ==
    \/ \E userId \in Authors : NumPosts < MaxPosts /\ CreatePost(userId)
    \/ \E userId \in Users, postId \in PostIds, value \in Values :
          Vote(userId, postId, value)
    \/ \E userId \in Users, postId \in PostIds, value \in Values :
          VoteMissingPost(userId, postId, value)

SpecMissing == Init /\ [][NextMissing]_vars

\* calls of createPost, vote and updatePost, one after the other
NextUpdate ==
    \/ \E userId \in Authors : NumPosts < MaxPosts /\ CreatePost(userId)
    \/ \E userId \in Users, postId \in PostIds, value \in {-1, 1} :
          Vote(userId, postId, value)
    \/ \E userId \in Callers, id \in PostIds, title \in Titles \cup {Undefined} :
          UpdatePost(userId, id, title)

SpecUpdate == Init /\ [][NextUpdate]_vars

\* calls of vote, with any of the values, one after the other
NextValues ==
    \/ \E userId \in Authors : NumPosts < MaxPosts /\ CreatePost(userId)
    \/ \E userId \in Users, postId \in PostIds, value \in Values :
          Vote(userId, postId, value)

SpecValues == Init /\ [][NextValues]_vars

\* concurrent vote requests on one post whose statements may fail
NextAtomic ==
    \/ \E userId \in Authors : post = <<>> /\ CreatePost(userId)
    \/ \E r \in Reqs, userId \in Users, postId \in PostIds, value \in Values :
          VoteFindOne(r, userId, postId, value)
    \/ \E r \in Reqs : VoteStatement1(r)
    \/ \E r \in Reqs : VoteCommit(r)
    \/ \E r \in Reqs : VoteStatement2Fails(r)

SpecAtomic == Init /\ [][NextAtomic]_vars

\* ------------------------------------------------------------- claims
\* the last completed call
Last == log[Len(log)]
Max(a, b) == IF a > b THEN a ELSE b

\* the points of a post in a snapshot of the tables
PointsIn(db, postId) == db.post[postId].points

\* C1: after any sequence of completed votes, the points of every post is
\* the sum of the values of the vote rows of that post.
PointsEqualSumOfVotes ==
    \A postId \in DOMAIN post :
        post[postId].points = SumValues(RowsOf(upvote, postId))

\* C1, its case: two users have voted on a post, one of them changed the
\* vote, and the post stands at -2.
PointsEqualSumOfVotesCase ==
    /\ log # <<>>
    /\ Last.op = "vote" /\ Last.result = "true"
    /\ Last.found # {} /\ Last.after # Last.before
    /\ Cardinality(RowsOf(upvote, Last.postId)) = 2
    /\ post[Last.postId].points = -2

\* C2: with concurrent vote requests on a post, two of them possibly of one
\* user, the points of every post is the sum of the values of its vote rows
\* in every state in which no vote transaction is open.
NoTransactionOpen == \A r \in Reqs : req[r].pc # "commit"
PointsEqualSumBetweenTransactions ==
    NoTransactionOpen =>
        \A postId \in DOMAIN post :
            post[postId].points = SumValues(RowsOf(upvote, postId))

\* C3: when different users vote concurrently on a post, once all requests
\* have completed the points of the post has changed by the sum of the
\* adjustments of the requests.
NoLostUpdate ==
    Quiet => \A postId \in DOMAIN post : post[postId].points = applied[postId]

\* C3, its case: a vote has committed while another user's request on the
\* same post was in flight, that request has committed too, and both rows
\* are in the table.
NoLostUpdateCase ==
    /\ Quiet
    /\ log # <<>>
    /\ Last.op = "vote" /\ Last.result = "true" /\ Last.raced
    /\ Last.after # Last.before
    /\ Cardinality(RowsOf(upvote, Last.postId)) = 2
    /\ post[Last.postId].points = 2

\* C4: a second vote of a user on a post with the value of the row the user
\* already has changes neither the row nor the points, and a first vote +1
\* followed by a vote +1 of the same user leaves the points at +1 above
\* what it was before the first.
RepeatedVoteIsNoOp ==
    log # <<>> =>
        /\ (/\ Last.op = "vote" /\ Last.result = "true"
            /\ \E row \in Last.found : row.value = Last.realValue)
           => Last.after = Last.before
        /\ (/\ Len(log) = 2
            /\ log[1].realValue = log[2].realValue)
           => /\ log[2].after = log[1].after
              /\ PointsIn(log[2].after, log[2].postId)
                    = PointsIn(log[1].before, log[1].postId) + log[1].realValue

\* C4, its case: a user has voted +1 on a post that another user had voted
\* on, and then +1 again.
RepeatedVoteIsNoOpCase ==
    /\ Len(log) = 2
    /\ log[1].realValue = 1 /\ log[2].realValue = 1
    /\ log[1].before.upvote # {}
    /\ PointsIn(log[2].after, log[2].postId)
          = PointsIn(log[1].before, log[1].postId) + 1

\* C5, as stated: a first vote +1 followed by a vote -1 of the same user
\* leaves the points at -2 below what it was before the first vote.
UpThenDownIsMinusTwo ==
    (/\ Len(log) = 2
     /\ log[1].realValue = 1 /\ log[2].realValue = -1)
    => PointsIn(log[2].after, log[2].postId)
          = PointsIn(log[1].before, log[1].postId) - 2

\* C5: a first vote +1 followed by a vote -1 of the same user leaves the
\* points at -1 below what it was before the first vote, which is -2 below
\* what it was after the first vote.
UpThenDownIsMinusOne ==
    (/\ Len(log) = 2
     /\ log[1].realValue = 1 /\ log[2].realValue = -1)
    => /\ PointsIn(log[2].after, log[2].postId)
             = PointsIn(log[1].before, log[1].postId) - 1
       /\ PointsIn(log[2].after, log[2].postId)
             = PointsIn(log[1].after, log[1].postId) - 2

\* C5, its case: a user has voted +1 for the first time on a post and then
\* -1, and the user's row holds -1.
UpThenDownCase ==
    /\ Len(log) = 2
    /\ log[1].realValue = 1 /\ log[2].realValue = -1
    /\ log[2].after # log[2].before
    /\ \E row \in upvote :
          row.userId = log[2].userId /\ row.postId = log[2].postId /\ row.value = -1

\* C6: vote and createPost without a session are rejected before any
\* database access: nothing is looked up, nothing is written.
UnauthenticatedIsRejected ==
    (log # <<>> /\ Last.op \in {"vote", "createPost"} /\ Last.userId = NoUser)
    => /\ Last.result = "rejected"
       /\ Last.dbOps = 0
       /\ Last.found = {}
       /\ Last.after = Last.before

\* C6, its case: a vote without a session on a post that has votes has been
\* rejected.
UnauthenticatedIsRejectedCase ==
    /\ log # <<>>
    /\ Last.op = "vote" /\ Last.userId = NoUser /\ Last.result = "rejected"
    /\ RowsOf(upvote, Last.postId) # {}

\* C7: paging through a feed from posts(limit, null) with the createdAt of
\* the last row as the next cursor, until hasMore is false, returns every
\* post of the feed once, newest first.
PagingReturnsEveryPostOnce ==
    (pager.state = "done" /\ pager.feed = DOMAIN post) =>
        /\ Len(pager.got) = Cardinality(pager.feed)
        /\ {pager.got[i] : i \in 1..Len(pager.got)} = pager.feed
        /\ \A i \in 1..Len(pager.got), j \in 1..Len(pager.got) :
              i < j => post[pager.got[i]].createdAt >= post[pager.got[j]].createdAt

\* the posts a query is restricted to by its cursor
Eligible(entry) ==
    Restricted(entry.before.post, entry.userId, entry.limit, entry.cursor)

\* C8: for every limit for which the query succeeds, hasMore is true
\* exactly when a post satisfying the cursor restriction remains beyond the
\* posts returned.
HasMoreIffPostsRemain ==
    (log # <<>> /\ Last.op = "posts" /\ Last.result = "ok")
    => (Last.hasMore <=> Cardinality(Eligible(Last)) > Len(Last.posts))

\* C9, as stated: posts returns at most min(limit, 50) posts.
AtMostMinLimitPosts ==
    (log # <<>> /\ Last.op = "posts" /\ Last.result = "ok")
    => Len(Last.posts) <= Min(Last.limit, MaxLimit)

\* C9: posts returns at most min(limit, 50) posts, and none when that is
\* negative; a limit above 50 yields at most 50 posts.
AtMostClampedLimitPosts ==
    (log # <<>> /\ Last.op = "posts")
    => /\ Len(Last.posts) <= Max(0, Min(Last.limit, MaxLimit))
       /\ Len(Last.posts) <= MaxLimit

\* C9, its case: a feed of more than 50 posts queried with a limit above 50
\* has returned 50 posts.
AtMostClampedLimitPostsCase ==
    /\ log # <<>>
    /\ Last.op = "posts" /\ Last.result = "ok"
    /\ Last.limit > MaxLimit
    /\ Cardinality(DOMAIN Last.before.post) > MaxLimit
    /\ Len(Last.posts) = MaxLimit

\* the value of the row of a caller for a post, null when there is none
OwnVote(rows, userId, postId) ==
    LET own == {row \in rows : row.userId = userId /\ row.postId = postId}
    IN IF userId # NoUser /\ own # {}
       THEN (CHOOSE row \in own : TRUE).value
       ELSE NullStatus

\* C10: the voteStatus of every post returned by posts is the value of the
\* caller's own vote row for the post when the caller has a session and has
\* voted on it, and null otherwise.
VoteStatusIsOwnVote ==
    (log # <<>> /\ Last.op = "posts")
    => \A i \in 1..Len(Last.posts) :
          Last.posts[i].voteStatus
             = OwnVote(Last.before.upvote, Last.userId, Last.posts[i].id)

\* C10, its case: a caller with a session has been returned a post with the
\* caller's -1 on it while another user's row for the post holds +1, and a
\* post the caller has not voted on.
VoteStatusIsOwnVoteCase ==
    /\ log # <<>>
    /\ Last.op = "posts" /\ Last.userId # NoUser
    /\ \E i \in 1..Len(Last.posts) :
          /\ Last.posts[i].voteStatus = -1
          /\ \E row \in upvote :
                /\ row.postId = Last.posts[i].id
                /\ row.userId # Last.userId
                /\ row.value = 1
    /\ \E i \in 1..Len(Last.posts) :
          /\ Last.posts[i].voteStatus = NullStatus
          /\ RowsOf(upvote, Last.posts[i].id) # {}

\* ------------------------------------------------------------- claims, users
\* the user id the next request of the client carries in its session
SessionUser(s) == IF s.cookie THEN s.userId ELSE NoUser

\* a register call whose input passed validation
ValidRegister(entry) ==
    entry.op = "register" /\ ValidateRegister(entry.args) = NoErrors

\* the unique columns whose value in the input another row already holds
Collided(entry) ==
    Violated(entry.before.user, entry.args.username, entry.args.email)

\* C11: register with a valid input whose username and email are unused
\* creates exactly one user row, with the username and email of the input
\* and a hash of its password, and sets the session user id to its id.
RegisterCreatesOneUser ==
    (log # <<>> /\ ValidRegister(Last) /\ Collided(Last) = {})
    => LET old == Last.before.user
           new == Last.after.user
       IN /\ Last.result = "user"
          /\ Len(new) = Len(old) + 1
          /\ SubSeq(new, 1, Len(old)) = old
          /\ new[Len(new)].username = Last.args.username
          /\ new[Len(new)].email = Last.args.email
          /\ new[Len(new)].password.of = Last.args.password
          /\ \A id \in DOMAIN old : new[Len(new)].id # old[id].id
          /\ SessionUser(Last.after.session) = new[Len(new)].id

\* C11, its case: a client logged in as the first user has registered a
\* second user and now carries the second user's id.
RegisterCreatesOneUserCase ==
    /\ log # <<>>
    /\ ValidRegister(Last) /\ Last.result = "user"
    /\ Len(Last.before.user) = 1
    /\ SessionUser(Last.before.session) = 1
    /\ SessionUser(session) = 2
    /\ Len(user) = 2

\* C12: register with a username or an email that a user already has
\* returns one field error whose field is an attribute that collided,
\* creates no row and leaves the session as it was.
CollisionNamesTheField ==
    (log # <<>> /\ ValidRegister(Last) /\ Collided(Last) # {})
    => /\ Last.result = "errors"
       /\ Len(Last.errors) = 1
       /\ Last.errors[1].field \in Collided(Last)
       /\ Last.after.user = Last.before.user
       /\ Last.after.session = Last.before.session

\* the users an identifier names: by email with an '@', by username without
Named(users, identifier) ==
    {id \in DOMAIN users :
        IF \E i \in DOMAIN identifier : identifier[i] = "@"
        THEN users[id].email = identifier
        ELSE users[id].username = identifier}

\* C13: login finds the user by email when the identifier has an '@' and by
\* username otherwise; it sets the session user id to the id of that user
\* only when the user exists and the password verifies, and else returns a
\* field error and leaves the session as it was.
LoginChecksUserAndPassword ==
    (log # <<>> /\ Last.op = "login")
    => LET named == Named(Last.before.user, Last.args.usernameOrEmail)
           proven == {id \in named :
                        Last.before.user[id].password.of = Last.args.password}
       IN /\ Cardinality(named) <= 1
          /\ proven # {}
                => /\ Last.result = "user"
                   /\ Last.after.session.userId \in proven
                   /\ Last.after.session.cookie
          /\ proven = {}
                => /\ Last.result = "errors"
                   /\ Len(Last.errors) = 1
                   /\ Last.errors[1].field
                         = (IF named = {} THEN "usernameOrEmail" ELSE "password")
                   /\ Last.after.session = Last.before.session
          /\ Last.after.user = Last.before.user

\* C13, its case: a client logged in as the second user has logged in with
\* the email and the password of the first.
LoginChecksUserAndPasswordCase ==
    /\ log # <<>>
    /\ Last.op = "login" /\ Last.result = "user"
    /\ Includes(Last.args.usernameOrEmail, At)
    /\ Last.before.session.userId = 2
    /\ session.userId = 1
    /\ user[1].password # user[2].password

Owners(users, email) == {id \in DOMAIN users : users[id].email = email}

\* C14: forgotPassword returns true for every email; when no user has the
\* email it stores no token and sends no email, and when one has it stores
\* exactly one token, which maps to the id of that user.
ForgotPasswordReturnsTrue ==
    (log # <<>> /\ Last.op = "forgotPassword")
    => LET owners == Owners(Last.before.user, Last.args.email)
           stored == Last.after.redis \ Last.before.redis
       IN /\ Last.result = "true"
          /\ Last.errors = NoErrors
          /\ Last.before.redis \subseteq Last.after.redis
          /\ owners = {}
                => /\ stored = {}
                   /\ Last.after.mail = Last.before.mail
          /\ owners # {}
                => /\ Cardinality(stored) = 1
                   /\ \A entry \in stored :
                         /\ ParseInt(entry.value) \in owners
                         /\ \A old \in Last.before.redis : old.key # entry.key
                         /\ Len(Last.after.mail) = Len(Last.before.mail) + 1
                         /\ Key(Last.after.mail[Len(Last.after.mail)].token) = entry.key
                         /\ Last.after.mail[Len(Last.after.mail)].to = Last.args.email
          /\ Last.after.user = Last.before.user
          /\ Last.after.session = Last.before.session

\* C14, its case: with a token of the first user in the cache,
\* forgotPassword with the email of the second user has stored a second
\* token, for the second user.
ForgotPasswordReturnsTrueCase ==
    /\ log # <<>>
    /\ Last.op = "forgotPassword"
    /\ \E entry \in Last.before.redis : ParseInt(entry.value) = 1
    /\ \E entry \in redis \ Last.before.redis : ParseInt(entry.value) = 2
    /\ Len(mail) = 2

\* the time a token was issued at
IssuedAt(token) ==
    {mail[i].at : i \in {j \in DOMAIN mail : mail[j].token = token}}

\* C15: a changePassword with a token issued more than 24 hours before is
\* rejected with the field error 'token expired'.
TokenLivesOneDay ==
    (/\ log # <<>>
     /\ Last.op = "changePassword"
     /\ Len(Last.args.newPassword) > 5
     /\ \E at \in IssuedAt(Last.args.token) : Last.at - at > Day)
    => /\ Last.result = "errors"
       /\ Last.errors = <<FieldError("token", "token expired")>>

\* C16, as stated: after a changePassword with a token has succeeded, every
\* later changePassword with the token returns 'token expired' and changes
\* no password hash.
UsedTokenIsExpired ==
    (log # <<>> /\ Last.op = "changePassword" /\ Last.args.token \in Last.before.used)
    => /\ Last.errors = <<FieldError("token", "token expired")>>
       /\ Last.after.user = Last.before.user
       /\ Last.after.pending = Last.before.pending

\* C16: after a changePassword with a token has succeeded, every later
\* changePassword with the token returns a field error, 'token expired'
\* when the new password is longer than 5 characters and the error on
\* newPassword otherwise, and changes no password hash.
UsedTokenIsRejected ==
    (log # <<>> /\ Last.op = "changePassword" /\ Last.args.token \in Last.before.used)
    => /\ Last.result = "errors"
       /\ Len(Last.args.newPassword) > 5
             => Last.errors = <<FieldError("token", "token expired")>>
       /\ Len(Last.args.newPassword) <= 5
             => Len(Last.errors) = 1 /\ Last.errors[1].field = "newPassword"
       /\ Last.after.user = Last.before.user
       /\ Last.after.pending = Last.before.pending
       /\ Last.after.session = Last.before.session

\* C16, its case: a token has changed the password of its user, and a
\* second changePassword with it and a long enough password has been
\* rejected.
UsedTokenIsRejectedCase ==
    /\ log # <<>>
    /\ Last.op = "changePassword" /\ Last.args.token \in Last.before.used
    /\ Len(Last.args.newPassword) > 5
    /\ Last.result = "errors"
    /\ \E id \in DOMAIN user : user[id].password.of = Hunter

\* the tokens the cache holds and has not expired at a time
LiveTokens(store, time) ==
    {entry.key[2] : entry \in {e \in store : time < e.expiresAt}}

\* the changes a rejected changePassword must not make
NothingChanged(entry) ==
    /\ entry.after.user = entry.before.user
    /\ entry.after.pending = entry.before.pending
    /\ entry.after.session = entry.before.session
    /\ entry.after.redis = entry.before.redis

\* C17, as stated: changePassword with a token that is unknown or expired
\* returns a field error on 'token' and changes no password hash, nor the
\* session, nor the token store.
UnknownTokenIsTokenError ==
    (/\ log # <<>>
     /\ Last.op = "changePassword"
     /\ Last.args.token \notin LiveTokens(Last.before.redis, Last.at))
    => /\ Last.result = "errors"
       /\ Len(Last.errors) = 1 /\ Last.errors[1].field = "token"
       /\ NothingChanged(Last)

\* C17: changePassword with a token that is unknown or expired returns a
\* field error, on 'token' when the new password is longer than 5
\* characters and on 'newPassword' otherwise, and changes no password
\* hash, nor the session, nor the token store.
UnknownTokenIsRejected ==
    (/\ log # <<>>
     /\ Last.op = "changePassword"
     /\ Last.args.token \notin LiveTokens(Last.before.redis, Last.at))
    => /\ Last.result = "errors"
       /\ Len(Last.errors) = 1
       /\ Last.errors[1].field
             = (IF Len(Last.args.newPassword) > 5 THEN "token" ELSE "newPassword")
       /\ NothingChanged(Last)

\* C17, its case: a changePassword with a long enough password and a token
\* that is in the cache and has expired has been rejected.
UnknownTokenIsRejectedCase ==
    /\ log # <<>>
    /\ Last.op = "changePassword" /\ Last.result = "errors"
    /\ Len(Last.args.newPassword) > 5
    /\ \E entry \in redis :
          entry.key = Key(Last.args.token) /\ entry.expiresAt <= Last.at

\* C18: when changePassword has returned success, the user of the token
\* has a hash of the new password and the session carries the id of that
\* user, so that a login with the new password succeeds.
ChangedPasswordLogsIn ==
    (log # <<>> /\ Last.op = "changePassword" /\ Last.result = "user")
    => \A entry \in Last.before.redis :
          entry.key = Key(Last.args.token)
          => LET id == ParseInt(entry.value)
             IN /\ session.userId = id
                /\ user[id].password.of = Last.args.newPassword
                /\ LoginResponse(user, user[id].username,
                                 Last.args.newPassword).errors = NoErrors

\* the row of a user for a post with the value opposite to a value
Opposite(userId, postId, value) ==
    {row \in upvote :
        row.userId = userId /\ row.postId = postId /\ row.value = -value}

\* C20: a vote of a user who has a row for the post with the opposite value
\* sets the value of that row to the new value and changes the points of
\* the post by 2 * value in the same step; no row is added, and no other
\* row and no other post changes.
FlipSetsRowAndAddsTwiceValue ==
    [][\A userId \in Users, postId \in PostIds, value \in Values :
          (Opposite(userId, postId, value) # {} /\ Vote(userId, postId, value))
          => /\ upvote' = (upvote \ Opposite(userId, postId, value))
                   \cup {[userId |-> userId, postId |-> postId, value |-> value]}
             /\ Cardinality(upvote') = Cardinality(upvote)
             /\ post'[postId].points = post[postId].points + 2 * value
             /\ \A other \in DOMAIN post \ {postId} : post'[other] = post[other]
             /\ DOMAIN post' = DOMAIN post]_vars

\* C20, its case: a user with a +1 on a post that another user has voted
\* on too has voted -1, and the points of the post went down by 2.
FlipSetsRowAndAddsTwiceValueCase ==
    /\ log # <<>>
    /\ Last.op = "vote" /\ Last.result = "true"
    /\ Last.realValue = -1
    /\ \E row \in Last.found : row.value = 1
    /\ Cardinality(RowsOf(upvote, Last.postId)) = 2
    /\ PointsIn(Last.after, Last.postId) = PointsIn(Last.before, Last.postId) - 2

\* C21: the insert of the vote row and the increment of points of a first
\* vote are one atomic unit: when either statement fails, the vote throws
\* and neither a new row nor a changed points is in the tables.
FirstVoteIsAtomic ==
    (log # <<>> /\ Last.op = "vote" /\ Last.found = {})
    => /\ Last.result = "error"
          => /\ Last.after.upvote = Last.before.upvote
             /\ Last.after.post = Last.before.post
       /\ Last.result = "true"
          => /\ Last.after.upvote
                   = Last.before.upvote
                        \cup {[userId |-> Last.userId, postId |-> Last.postId,
                               value |-> Last.realValue]}
             /\ PointsIn(Last.after, Last.postId)
                   = PointsIn(Last.before, Last.postId) + Last.realValue

\* C21, its case: the update of points of the first vote of a user on a
\* post that has a vote of another user has failed, and the vote has
\* thrown.
FirstVoteIsAtomicCase ==
    /\ log # <<>>
    /\ Last.op = "vote" /\ Last.found = {} /\ Last.result = "error"
    /\ Last.dbOps = 3
    /\ upvote # {}
    /\ \A row \in upvote : row.userId # Last.userId

\* C22: whatever integer a vote is called with, afterwards every vote row
\* has value +1 or -1, the row of the caller on the post has -1 when the
\* argument was -1 and +1 for every other integer, and no (user, post) has
\* more than one row.
VoteRowsAreNormalized ==
    [][\A userId \in Users, postId \in PostIds, value \in Values :
          Vote(userId, postId, value)
          => /\ \A row \in upvote' : row.value \in {1, -1}
             /\ \A row \in upvote' :
                   (row.userId = userId /\ row.postId = postId)
                   => row.value = (IF value = -1 THEN -1 ELSE 1)
             /\ \E row \in upvote' : row.userId = userId /\ row.postId = postId
             /\ \A row, other \in upvote' :
                   (row.userId = other.userId /\ row.postId = other.postId)
                   => row = other]_vars

\* C22, its case: votes of two users have left a +1 and a -1 on one post,
\* the last of them on a post the caller had already voted on.
VoteRowsAreNormalizedCase ==
    /\ log # <<>>
    /\ Last.op = "vote" /\ Last.found # {} /\ Last.result = "true"
    /\ \E row, other \in upvote :
          /\ row.postId = other.postId /\ row.userId # other.userId
          /\ row.value = 1 /\ other.value = -1

\* the post table without the posts created after the first page
FeedOnly(entry) == [id \in pager.feed |-> entry.before.post[id]]

\* C23: a post created while a client pages is not among the rows a
\* following page is restricted to (its createdAt is not strictly older
\* than the cursor), so the following pages are those of the feed the
\* first page saw: none of its posts is returned twice, and where no two
\* of its posts share a createdAt none is skipped.
InsertsLeaveFollowingPagesAlone ==
    /\ (log # <<>> /\ Last.op = "posts" /\ Truthy(Last.cursor))
       => /\ Eligible(Last)
                = Restricted(FeedOnly(Last), Last.userId, Last.limit, Last.cursor)
          /\ \A i \in 1..Len(Last.posts) : Last.posts[i].id \in pager.feed
    /\ \A i, j \in 1..Len(pager.got) : pager.got[i] = pager.got[j] => i = j
    /\ (/\ pager.state = "done"
        /\ \A id, other \in pager.feed :
              post[id].createdAt = post[other].createdAt => id = other)
       => {pager.got[i] : i \in 1..Len(pager.got)} = pager.feed

\* C23, its case: a post was created, at the clock reading of the cursor,
\* between two pages of a feed of two posts or more, and the paging has
\* come to its end.
InsertsLeaveFollowingPagesAloneCase ==
    /\ log # <<>>
    /\ Last.op = "posts" /\ Truthy(Last.cursor)
    /\ pager.state = "done"
    /\ Cardinality(pager.feed) >= 2
    /\ \E id \in DOMAIN Last.before.post \ pager.feed :
          CursorOf(Last.before.post[id].createdAt) = Last.cursor

\* C24: a vote on a post id that no post has fails with an error instead of
\* returning true, and leaves no vote row of that post id.
VoteOnMissingPostFails ==
    (log # <<>> /\ Last.op = "vote" /\ Last.postId \notin DOMAIN Last.before.post)
    => /\ Last.result = "error"
       /\ RowsOf(Last.after.upvote, Last.postId) = {}
       /\ Last.after = Last.before

\* C24, its case: a user who has a vote on the post that exists has voted
\* on the id of a post that does not, and the vote has thrown.
VoteOnMissingPostFailsCase ==
    /\ log # <<>>
    /\ Last.op = "vote" /\ Last.postId \notin DOMAIN post
    /\ Last.result = "error"
    /\ \E row \in upvote : row.userId = Last.userId

\* C25: updatePost on an id that no post has gives null and no error, and
\* changes no post row; on the id of a post it changes the title of that
\* post and nothing else.
UpdatePostOnMissingIdGivesNull ==
    (log # <<>> /\ Last.op = "updatePost")
    => IF Last.postId \notin DOMAIN Last.before.post
       THEN Last.result = "null" /\ Last.after = Last.before
       ELSE /\ Last.after.upvote = Last.before.upvote
            /\ DOMAIN Last.after.post = DOMAIN Last.before.post
            /\ \A id \in DOMAIN Last.before.post :
                  IF id = Last.postId
                  THEN \E title \in Titles :
                          Last.after.post[id]
                             = [Last.before.post[id] EXCEPT !.title = title]
                  ELSE Last.after.post[id] = Last.before.post[id]

\* what holds of updatePost: on an id that no post has the resolver returns
\* null and changes no row, and the response carries an error; on the id
\* of a post only the title of that post changes.
UpdatePostFrame ==
    (log # <<>> /\ Last.op = "updatePost")
    => IF Last.postId \notin DOMAIN Last.before.post
       THEN Last.returned = "null" /\ Last.result = "error"
            /\ Last.after = Last.before
       ELSE /\ Last.after.upvote = Last.before.upvote
            /\ DOMAIN Last.after.post = DOMAIN Last.before.post
            /\ \A id \in DOMAIN Last.before.post :
                  IF id = Last.postId /\ Last.title # Undefined
                  THEN Last.after.post[id]
                          = [Last.before.post[id] EXCEPT !.title = Last.title]
                  ELSE Last.after.post[id] = Last.before.post[id]

\* C26: of the changePassword requests in flight with one valid token, at
\* most one changes the password; a request that ends after another has
\* succeeded with its token gets the error 'token expired'.
OneChangePerToken ==
    (/\ log # <<>>
     /\ Last.op = "changePassword"
     /\ ~TooShort(Last.args.newPassword)
     /\ Last.args.token \in Last.before.used)
    => /\ Last.result = "errors"
       /\ Last.errors = <<FieldError("token", "token expired")>>
       /\ Last.after.pending = Last.before.pending
       /\ Last.after.session = Last.before.session

\* ------------------------------------------------------------- email field
\* the empty string
Empty == <<>>

\* a field resolver that returns the stored email to every caller
EmailStored(sessionUserId, root) == root.email

\* @FieldResolver email(@Root() user, @Ctx() { req }): the email of the
\* requesting user's own object, and '' for every other
Email(sessionUserId, root) ==
    IF sessionUserId = root.id THEN root.email ELSE Empty

\* a User object of a response, its email field resolved
Resolved(sessionUserId, root) ==
    [id |-> root.id, username |-> root.username,
     email |-> Email(sessionUserId, root)]

\* json_build_object('id', u.id, 'username', u.username, 'email', u.email,
\* ...) "createdBy" of post p joined with its creator u
CreatedBy(users, posts, p) ==
    LET u == users[posts[p].creatorId]
    IN [id |-> u.id, username |-> u.username, email |-> u.email]

\* query me with the field email: null without a session, else the user of
\* the session
Me ==
    /\ UNCHANGED <<post, upvote, req, applied, now, nVotes, pager, userVars>>
    /\ LET sessionUserId == SessionUser(session)
           roots == IF sessionUserId = NoUser \/ sessionUserId \notin DOMAIN user
                    THEN <<>>
                    ELSE <<user[sessionUserId]>>
       IN log' = Logged([op |-> "me", viewer |-> sessionUserId,
                         users |-> [i \in DOMAIN roots |->
                                       Resolved(sessionUserId, roots[i])],
                         before |-> UserDB])

\* query posts with the field createdBy { email } of every post
PostsCreatedBy ==
    /\ UNCHANGED <<post, upvote, req, applied, now, nVotes, pager, userVars>>
    /\ LET sessionUserId == SessionUser(session)
           roots == [p \in DOMAIN post |-> CreatedBy(user, post, p)]
       IN log' = Logged([op |-> "createdBy", viewer |-> sessionUserId,
                         users |-> [i \in DOMAIN roots |->
                                       Resolved(sessionUserId, roots[i])],
                         before |-> UserDB])

\* users register, log in and out and create posts, and callers with and
\* without a session read the email of the users the queries return
NextEmail ==
    \/ Len(user) < Len(Seeds) /\ Register(Seeds[Len(user) + 1])
    \/ \E i \in 1..Len(Seeds) : Login(Seeds[i].username, Seeds[i].password)
    \/ Logout
    \/ NumPosts < MaxPosts /\ CreatePost(SessionUser(session))
    \/ Me
    \/ PostsCreatedBy

SpecEmail == Init /\ [][NextEmail]_vars

\* C27: the email field of a User of a response, the createdBy of the
\* posts of the feed included, is the stored email when the user of the
\* session is that user and '' otherwise: no caller without a session and
\* no other user is shown a user's email.
EmailOnlyToItsOwner ==
    (log # <<>> /\ Last.op \in {"me", "createdBy"})
    => \A i \in DOMAIN Last.users :
          LET shown == Last.users[i]
          IN /\ shown.id \in DOMAIN user
             /\ IF Last.viewer = shown.id
                THEN shown.email = user[shown.id].email
                ELSE shown.email = Empty /\ shown.email # user[shown.id].email

\* C27, its case: the feed shown to a user with a session holds a post of
\* that user and a post of another user.
EmailOnlyToItsOwnerCase ==
    /\ log # <<>>
    /\ Last.op = "createdBy"
    /\ Last.viewer # NoUser
    /\ \E i, j \in DOMAIN Last.users :
          /\ Last.users[i].id = Last.viewer /\ Last.users[i].email # Empty
          /\ Last.users[j].id # Last.viewer

\* ------------------------------------------------------------- upvote loader
\* the ids of the users and posts of the batches: of one and of two digits
LoaderUsers == {1, 12}
LoaderPosts == {3, 23}
Keys == [userId : LoaderUsers, postId : LoaderPosts]

\* the batches of at most MaxKeys keys; a key may come twice
Batches == UNION {[1..n -> Keys] : n \in 1..MaxKeys}

\* the character '|', which is no digit
Bar == 10

\* a key string that runs the two ids together
KeyStringNoBar(userId, postId) == CursorOf(userId) \o CursorOf(postId)

\* `${userId}|${postId}`
KeyString(userId, postId) == CursorOf(userId) \o <<Bar>> \o CursorOf(postId)

\* Upvote.findByIds(keys): the rows whose primary key is one of the keys
FindByIds(rows, keys) ==
    {row \in rows : \E i \in DOMAIN keys :
        keys[i].userId = row.userId /\ keys[i].postId = row.postId}

\* upvotes.forEach((upvote) => upvotesIdsToUpvote[key string] = upvote); of
\* the rows of one key string the one written last stays
UpvotesIdsToUpvote(upvotes) ==
    [k \in {KeyString(row.userId, row.postId) : row \in upvotes} |->
        CHOOSE row \in upvotes : KeyString(row.userId, row.postId) = k]

\* keys.map((key) => upvotesIdsToUpvote[key string]): per key the row, or
\* none (undefined)
BatchLoad(rows, keys) ==
    LET upvotesIdsToUpvote == UpvotesIdsToUpvote(FindByIds(rows, keys))
    IN [i \in DOMAIN keys |->
          LET k == KeyString(keys[i].userId, keys[i].postId)
          IN IF k \in DOMAIN upvotesIdsToUpvote THEN {upvotesIdsToUpvote[k]}
             ELSE {}]

\* the loader is called with a batch of keys
Load(keys) ==
    /\ UNCHANGED <<post, upvote, req, applied, now, nVotes, pager, userVars>>
    /\ log' = Logged([op |-> "load", keys |-> keys,
                      result |-> BatchLoad(upvote, keys), before |-> DB])

\* the tables the batches are loaded from: any votes of the users on the
\* posts, each post with the sum of its votes as points
InitLoader ==
    /\ upvote \in {{[userId |-> k.userId, postId |-> k.postId, value |-> v[k]] :
                       k \in voted} :
                   voted \in SUBSET Keys, v \in [Keys -> {1, -1}]}
    /\ post = [p \in LoaderPosts |->
                 [title |-> PostInput.title, text |-> PostInput.text,
                  points |-> SumValues(RowsOf(upvote, p)), createdAt |-> 1,
                  creatorId |-> 1]]
    /\ applied = [p \in LoaderPosts |-> SumValues(RowsOf(upvote, p))]
    /\ req = [r \in Reqs |-> Idle]
    /\ log = <<>>
    /\ now = 1
    /\ nVotes = 0
    /\ pager = NoPager
    /\ user = <<>>
    /\ session = NoSession
    /\ redis = {}
    /\ mail = <<>>
    /\ pending = {}
    /\ used = {}

NextLoader == \E keys \in Batches : Load(keys)

SpecLoader == InitLoader /\ [][NextLoader]_vars

\* C28: for every batch of keys the batch function returns as many elements
\* as there are keys, in their order: the i-th is the vote row with the
\* userId and the postId of the i-th key, or nothing when there is no such
\* row, and never the row of another user or post.
LoaderAnswersEveryKey ==
    (log # <<>> /\ Last.op = "load")
    => /\ Len(Last.result) = Len(Last.keys)
       /\ \A i \in 1..Len(Last.keys) :
             Last.result[i] = FindOne(Last.before.upvote, Last.keys[i].userId,
                                      Last.keys[i].postId)

\* C28, its case: a batch of a key that has a row and a key that has none,
\* while the table holds the row of a key whose ids spell the same digits
\* as the key that has none.
LoaderAnswersEveryKeyCase ==
    /\ log # <<>>
    /\ Last.op = "load"
    /\ \E i, j \in 1..Len(Last.keys) :
          /\ Last.result[i] # {}
          /\ Last.result[j] = {}
          /\ \E row \in upvote :
                KeyStringNoBar(row.userId, row.postId)
                   = KeyStringNoBar(Last.keys[j].userId, Last.keys[j].postId)
====
